---- MODULE Spec2Model ----
(***************************************************************************)
(* abiosoft/orchestra: the Orchestra aggregator (NewOrchestra, Add, the    *)
(* setters, Process with its fan-out of fetchConns goroutines, the two     *)
(* output formatters) as a state machine.                                  *)
(*                                                                         *)
(* Conventions.                                                            *)
(*  - A time.Duration is counted in microseconds (Millisecond = 1000).     *)
(*  - A text is a sequence of string pieces; a line break is always the    *)
(*    piece "\n" of its own, so strings.HasSuffix(d, "\n") is a test on    *)
(*    the last piece.                                                      *)
(*  - A *Conn is its index in o.conns (the slice only grows by append).    *)
(*  - The sink w never fails a Write (an httptest.ResponseRecorder or a    *)
(*    connected client).                                                   *)
(***************************************************************************)
EXTENDS Integers, Sequences, FiniteSets, TLC

VARIABLES
    conns,          \* Orchestra.conns: the units, each [id, url, Timeout, Response]
    responseType,   \* Orchestra.responseType
    delimiter,      \* Orchestra.delimiter
    timeout,        \* Orchestra.timeout
    pc,             \* where the caller's goroutine is: new (just constructed), idle, range, launch (the go loop, then wg.Wait), json, delim, returned, panic
    i,              \* the loop index of Process / outputJson / outputDelimiter
    wg,             \* the sync.WaitGroup counter of the running Process
    tasks,          \* the goroutines started by the running Process, in start order
    resps,          \* the elements json.Encoder has marshalled so far
    w,              \* the sink of the running Process
    clock,          \* time elapsed since the running Process was called
    retErr,         \* the error processConns returned to Process
    fetched,        \* history: the units whose Fetch has returned at least once
    rangeLen,       \* the length the running range loop evaluated once, at its start
    prev,           \* history: <<the output of the serialization before the current one>>, if any
    targets,        \* history: <<the requests NewOrchestra was given>>, kept until the first Process
    adders,         \* the goroutines calling Add concurrently: each [pc, r, local, tmo]
    cLock,          \* Orchestra.cLock: 0 when free, else the adder holding it
    req             \* the form values of the http request the handler serves, each a text

vars == <<conns, responseType, delimiter, timeout, pc, i, wg, tasks, resps, w, clock, retErr, fetched,
          rangeLen, prev, targets, adders, cLock, req>>

-----------------------------------------------------------------------------
(* Bounds and program constants *)

MaxConns == 2

\* How many goroutines call Add at the same time.
MaxAdders == 2

typeJson == 0

typeDelimiter == 1

Millisecond == 1000

Second == 1000 * Millisecond

defaultTimeout == 10 * Second

defaultDelimiter == <<"\n", "---XXX---", "\n">>

\* The ConnRequests a caller registers (an id may repeat and may be empty).
Requests ==
    { [id |-> "a", url |-> "ok"],
      [id |-> "b", url |-> "nf"],
      [id |-> "a", url |-> "stall"],
      [id |-> "c", url |-> "slow"],
      [id |-> "", url |-> "bad"] }

\* The durations a caller passes to SetTimeout (always positive: the handler
\* calls it only when params.timeout > 0, the test with 2 * time.Second).
TimeoutChoices == { 2 * Second }

\* The texts a caller passes to SetDelimiter.
DelimiterChoices == { <<"====">>, <<"==", "\n">> }

\* What the remote end of a url does: malformed is a url http.NewRequest
\* rejects; otherwise status line and headers arrive hdrLat after the call,
\* the pieces of early are flushed with them, and the body is complete
\* bodyLat later.
Remote(url) ==
    CASE url = "ok" ->
           [malformed |-> FALSE, hdrLat |-> 1500, StatusCode |-> 200,
            Status |-> "200 OK", body |-> <<"OK/1">>, early |-> <<>>, bodyLat |-> 0]
      [] url \in {"nf", "h:nf"} ->
           [malformed |-> FALSE, hdrLat |-> 700, StatusCode |-> 404,
            Status |-> "404 Not Found", body |-> <<>>, early |-> <<>>, bodyLat |-> 0]
      [] url = "stall" ->
           [malformed |-> FALSE, hdrLat |-> 1000, StatusCode |-> 200,
            Status |-> "200 OK", body |-> <<"OK">>, early |-> <<"OK">>, bodyLat |-> 3 * Second]
      [] url = "slow" ->
           [malformed |-> FALSE, hdrLat |-> 5 * Second, StatusCode |-> 500,
            Status |-> "500 Internal Server Error", body |-> <<"oops">>, early |-> <<>>,
            bodyLat |-> 0]
      [] OTHER ->
           [malformed |-> TRUE, hdrLat |-> 0, StatusCode |-> 0,
            Status |-> "", body |-> <<>>, early |-> <<>>, bodyLat |-> 0]

-----------------------------------------------------------------------------
(* Helpers *)

Max(a, b) == IF a >= b THEN a ELSE b

SeqsUpTo(S, n) == UNION { [1..m -> S] : m \in 0..n }

\* A nil error and the errors net/http hands back.
NoErr == [kind |-> "nil", text |-> ""]

ParseErr == [kind |-> "parse", text |-> "parse: missing protocol scheme"]

HeaderTimeoutErr == [kind |-> "timeout", text |-> "Client.Timeout exceeded while awaiting headers"]

BodyTimeoutErr == [kind |-> "timeout", text |-> "Client.Timeout exceeded while reading body"]

\* A response body stream: state is none (no http.Response), unread, drained
\* (read to EOF) or broken (a Read failed); deadline is the http.Client
\* timer armed by Do, which keeps running while the body is read.
NoBody == [state |-> "none", deadline |-> 0, closed |-> FALSE]

\* The nil *Response of a Conn that was never fetched.
NilResponse ==
    [nil |-> TRUE, http |-> FALSE, id |-> "", err |-> NoErr, duration |-> 0,
     StatusCode |-> 0, Status |-> "", Body |-> NoBody]

\* ErrResponse, had the failure paths stamped the elapsed time like the success path.
ErrResponseTimed(id, err) ==
    [nil |-> FALSE, http |-> FALSE, id |-> id, err |-> err, duration |-> Millisecond,
     StatusCode |-> 0, Status |-> "", Body |-> NoBody]

\* &Response{nil, c.id, err, 0}
ErrResponse(id, err) ==
    [nil |-> FALSE, http |-> FALSE, id |-> id, err |-> err, duration |-> 0,
     StatusCode |-> 0, Status |-> "", Body |-> NoBody]

\* OkResponse, had Fetch read the body to its end before storing the record.
OkResponseBodyRead(c, rem) ==
    [nil |-> FALSE, http |-> TRUE, id |-> c.id, err |-> NoErr, duration |-> rem.hdrLat,
     StatusCode |-> rem.StatusCode, Status |-> rem.Status,
     Body |-> [state |-> "drained", deadline |-> c.Timeout, closed |-> FALSE]]

\* &Response{response, c.id, nil, time.Since(now)}
OkResponse(c, rem) ==
    [nil |-> FALSE, http |-> TRUE, id |-> c.id, err |-> NoErr, duration |-> rem.hdrLat,
     StatusCode |-> rem.StatusCode, Status |-> rem.Status,
     Body |-> [state |-> "unread", deadline |-> c.Timeout, closed |-> FALSE]]

NewConn(r) == [id |-> r.id, url |-> r.url, Timeout |-> 0, Response |-> NilResponse]

\* Fetch, had it turned a status of 400 and above into an error.
FetchStatusAsError(c) ==
    LET rem == Remote(c.url) IN
    IF rem.malformed THEN ErrResponse(c.id, ParseErr)
    ELSE IF c.Timeout > 0 /\ rem.hdrLat >= c.Timeout THEN ErrResponse(c.id, HeaderTimeoutErr)
    ELSE IF rem.StatusCode >= 400 THEN ErrResponse(c.id, [kind |-> "status", text |-> rem.Status])
    ELSE OkResponse(c, rem)

\* Conn.Fetch: the record it stores in c.Response.
Fetch(c) ==
    LET rem == Remote(c.url) IN
    IF rem.malformed THEN ErrResponse(c.id, ParseErr)
    ELSE IF c.Timeout > 0 /\ rem.hdrLat >= c.Timeout THEN ErrResponse(c.id, HeaderTimeoutErr)
    ELSE OkResponse(c, rem)

\* The time Conn.Fetch takes.
FetchTime(c) ==
    LET rem == Remote(c.url) IN
    IF rem.malformed THEN 0
    ELSE IF c.Timeout > 0 /\ rem.hdrLat >= c.Timeout THEN c.Timeout
    ELSE rem.hdrLat

-----------------------------------------------------------------------------
(* Construction and settings *)

\* NewOrchestra, had it left each unit with the Timeout NewConn gives it.
NewOrchestraBareConns(requests) ==
    /\ conns = [k \in 1..Len(requests) |-> NewConn(requests[k])]
    /\ responseType = typeJson
    /\ delimiter = defaultDelimiter
    /\ timeout = defaultTimeout

NewOrchestra(requests) ==
    /\ conns = [k \in 1..Len(requests) |-> [NewConn(requests[k]) EXCEPT !.Timeout = defaultTimeout]]
    /\ responseType = typeJson
    /\ delimiter = defaultDelimiter
    /\ timeout = defaultTimeout

\* A http.ResponseWriter nothing was written to: code is the status given
\* to WriteHeader (0 when it was not called), ctype the Content-type header.
EmptySink == [code |-> 0, ctype |-> "", text |-> <<>>, docs |-> <<>>]

\* The form values when the Orchestra is used without the handler.
NoRequest == [requests |-> <<>>, type |-> <<>>, delimiter |-> <<>>, timeout |-> <<>>]

\* The state when NewOrchestra has returned; nothing runs yet.
Constructed ==
    /\ \E requests \in SeqsUpTo(Requests, MaxConns) : NewOrchestra(requests) /\ targets = <<requests>>
    /\ pc = "new"
    /\ i = 0
    /\ wg = 0
    /\ tasks = <<>>
    /\ resps = <<>>
    /\ w = EmptySink
    /\ clock = 0
    /\ retErr = NoErr
    /\ fetched = {}
    /\ rangeLen = 0
    /\ prev = <<>>
    /\ cLock = 0
    /\ req = NoRequest

Init ==
    /\ Constructed
    /\ adders = <<>>

\* The caller's goroutine is between calls.
Idle == pc \in {"new", "idle", "returned"}

\* Add, had it left the new unit with the timeout NewConn's caller gives at
\* construction (defaultTimeout) instead of o.timeout.
AddWithDefaultTimeout(r) ==
    /\ Idle
    /\ Len(conns) < MaxConns
    /\ conns' = Append(conns, [NewConn(r) EXCEPT !.Timeout = defaultTimeout])
    /\ pc' = "idle"
    /\ UNCHANGED <<responseType, delimiter, timeout, i, wg, tasks, resps, w, clock, retErr, fetched,
                   rangeLen, prev, targets, adders, cLock, req>>

\* Add, had it put the new unit in front.
AddInFront(r) ==
    /\ Idle
    /\ Len(conns) < MaxConns
    /\ conns' = <<[NewConn(r) EXCEPT !.Timeout = timeout]>> \o conns
    /\ pc' = "idle"
    /\ UNCHANGED <<responseType, delimiter, timeout, i, wg, tasks, resps, w, clock, retErr, fetched,
                   rangeLen, prev, targets, adders, cLock, req>>

\* SetTimeout, had it set o.timeout alone.
SetTimeoutDefaultOnly(t) ==
    /\ Idle
    /\ timeout' = t
    /\ pc' = "idle"
    /\ UNCHANGED <<conns, responseType, delimiter, i, wg, tasks, resps, w, clock, retErr, fetched,
                   rangeLen, prev, targets, adders, cLock, req>>

Add(r) ==
    /\ Idle
    /\ Len(conns) < MaxConns
    /\ conns' = Append(conns, [NewConn(r) EXCEPT !.Timeout = timeout])
    /\ pc' = "idle"
    /\ UNCHANGED <<responseType, delimiter, timeout, i, wg, tasks, resps, w, clock, retErr, fetched,
                   rangeLen, prev, targets, adders, cLock, req>>

SetTimeout(t) ==
    /\ Idle
    /\ timeout' = t
    /\ conns' = [k \in 1..Len(conns) |-> [conns[k] EXCEPT !.Timeout = t]]
    /\ pc' = "idle"
    /\ UNCHANGED <<responseType, delimiter, i, wg, tasks, resps, w, clock, retErr, fetched,
                   rangeLen, prev, targets, adders, cLock, req>>

\* HasSuffixNewline, had SetDelimiter appended the line break unconditionally.
HasSuffixNever(d) == FALSE

HasSuffixNewline(d) == Len(d) > 0 /\ d[Len(d)] = "\n"

\* What SetDelimiter stores for d.
StoredDelimiter(d) == IF HasSuffixNewline(d) THEN <<"\n">> \o d ELSE <<"\n">> \o d \o <<"\n">>

\* SetDelimiter, had it stored the delimiter and left the mode alone.
SetDelimiterKeepMode(d) ==
    /\ Idle
    /\ delimiter' = StoredDelimiter(d)
    /\ pc' = "idle"
    /\ UNCHANGED <<conns, responseType, timeout, i, wg, tasks, resps, w, clock, retErr, fetched,
                   rangeLen, prev, targets, adders, cLock, req>>

SetDelimiter(d) ==
    /\ Idle
    /\ delimiter' = StoredDelimiter(d)
    /\ responseType' = typeDelimiter
    /\ pc' = "idle"
    /\ UNCHANGED <<conns, timeout, i, wg, tasks, resps, w, clock, retErr, fetched,
                   rangeLen, prev, targets, adders, cLock, req>>

UseDelimeter ==
    /\ Idle
    /\ responseType' = typeDelimiter
    /\ pc' = "idle"
    /\ UNCHANGED <<conns, delimiter, timeout, i, wg, tasks, resps, w, clock, retErr, fetched,
                   rangeLen, prev, targets, adders, cLock, req>>

\* UseJson, had it put the default delimiter back.
UseJsonResetDelimiter ==
    /\ Idle
    /\ responseType' = typeJson
    /\ delimiter' = defaultDelimiter
    /\ pc' = "idle"
    /\ UNCHANGED <<conns, timeout, i, wg, tasks, resps, w, clock, retErr, fetched,
                   rangeLen, prev, targets, adders, cLock, req>>

UseJson ==
    /\ Idle
    /\ responseType' = typeJson
    /\ pc' = "idle"
    /\ UNCHANGED <<conns, delimiter, timeout, i, wg, tasks, resps, w, clock, retErr, fetched,
                   rangeLen, prev, targets, adders, cLock, req>>

-----------------------------------------------------------------------------
(* Process: fan-out, barrier *)

\* wg.Add(len(o.conns))
WgAdd(n) == n

\* FetchSlot, had the goroutine been a closure reading the loop variable i
\* when it runs.
FetchSlotLoopVar(k) == IF i <= Len(conns) THEN i ELSE Len(conns)

\* The *Conn the k-th started goroutine works on: the argument o.conns[i]
\* is evaluated by the go statement, in the caller's goroutine.
FetchSlot(k) == tasks[k].conn

\* WgDone, had fetchConns returned early on a failed Fetch.
WgDoneUnlessFailed(n, c) == IF conns[c].Response.err # NoErr THEN n ELSE n - 1

\* wg.Done() after conn.Fetch() of the unit c.
WgDone(n, c) == n - 1

\* WaitReturns, had the counter been one short.
WaitReturnsEarly == wg <= 1

\* wg.Wait() returns.
WaitReturns == wg = 0

\* Process, had it dropped the records of the previous call before fetching.
ProcessDroppingRecords ==
    /\ Idle
    /\ conns' = [k \in 1..Len(conns) |-> [conns[k] EXCEPT !.Response = NilResponse]]
    /\ wg' = WgAdd(Len(conns))
    /\ tasks' = <<>>
    /\ i' = 1
    /\ resps' = <<>>
    /\ w' = EmptySink
    /\ clock' = 0
    /\ retErr' = NoErr
    /\ prev' = <<>>
    /\ targets' = <<>>
    /\ pc' = "range"
    /\ UNCHANGED <<responseType, delimiter, timeout, fetched, rangeLen, adders, cLock, req>>

Process ==
    /\ Idle
    /\ wg' = WgAdd(Len(conns))
    /\ tasks' = <<>>
    /\ i' = 1
    /\ resps' = <<>>
    /\ w' = EmptySink
    /\ clock' = 0
    /\ retErr' = NoErr
    /\ prev' = <<>>
    /\ targets' = <<>>
    /\ pc' = "range"
    /\ UNCHANGED <<conns, responseType, delimiter, timeout, fetched, rangeLen, adders, cLock, req>>

\* for i := range o.conns: the range expression is evaluated once, here.
ProcessRange ==
    /\ pc = "range"
    /\ rangeLen' = Len(conns)
    /\ pc' = "launch"
    /\ UNCHANGED <<conns, responseType, delimiter, timeout, i, wg, tasks, resps, w, clock, retErr,
                   fetched, prev, targets, adders, cLock, req>>

\* Launch, had every goroutine been handed the first unit.
LaunchFirst ==
    /\ pc = "launch"
    /\ i <= rangeLen
    /\ tasks' = Append(tasks, [conn |-> 1, pc |-> "fetch"])
    /\ i' = i + 1
    /\ UNCHANGED <<conns, responseType, delimiter, timeout, pc, wg, resps, w, clock, retErr, fetched,
                   rangeLen, prev, targets, adders, cLock, req>>

\* go fetchConns(o.conns[i], &wg)
Launch ==
    /\ pc = "launch"
    /\ i <= rangeLen
    /\ tasks' = Append(tasks, [conn |-> i, pc |-> "fetch"])
    /\ i' = i + 1
    /\ UNCHANGED <<conns, responseType, delimiter, timeout, pc, wg, resps, w, clock, retErr, fetched,
                   rangeLen, prev, targets, adders, cLock, req>>

\* conn.Fetch() in the k-th goroutine returns, its Response stored.
fetchConnsFetch(k) ==
    /\ k \in 1..Len(tasks)
    /\ tasks[k].pc = "fetch"
    /\ LET c == FetchSlot(k) IN
         /\ conns' = [conns EXCEPT ![c].Response = Fetch(conns[c])]
         /\ clock' = Max(clock, FetchTime(conns[c]))
         /\ fetched' = fetched \cup {c}
    /\ tasks' = [tasks EXCEPT ![k].pc = "stored"]
    /\ UNCHANGED <<responseType, delimiter, timeout, pc, i, wg, resps, w, retErr,
                   rangeLen, prev, targets, adders, cLock, req>>

\* wg.Done() in the k-th goroutine, which then ends; sync.WaitGroup panics
\* ("sync: negative WaitGroup counter") when the counter would drop below 0.
fetchConnsDone(k) ==
    /\ k \in 1..Len(tasks)
    /\ tasks[k].pc = "stored"
    /\ tasks' = [tasks EXCEPT ![k].pc = "done"]
    /\ IF WgDone(wg, FetchSlot(k)) < 0
       THEN pc' = "panic" /\ UNCHANGED wg
       ELSE wg' = WgDone(wg, FetchSlot(k)) /\ UNCHANGED pc
    /\ UNCHANGED <<conns, responseType, delimiter, timeout, i, resps, w, clock, retErr, fetched,
                   rangeLen, prev, targets, adders, cLock, req>>

-----------------------------------------------------------------------------
(* Result records on their way out *)

\* durationStr, had it rounded to the nearest millisecond.
durationStrRounded(r) == ToString((r.duration + Millisecond \div 2) \div Millisecond) \o "ms"

\* Response.durationStr: fmt.Sprintf("%vms", int64(r.duration)/1e6)
durationStr(r) == ToString(r.duration \div Millisecond) \o "ms"

\* Response.output
output(r) ==
    IF r.err # NoErr
    THEN [Id |-> r.id, StatusCode |-> 0, Status |-> "", Duration |-> "", Body |-> <<>>,
          Error |-> r.err.text]
    ELSE [Id |-> r.id, StatusCode |-> r.StatusCode, Status |-> r.Status,
          Duration |-> durationStr(r), Body |-> <<>>, Error |-> ""]

\* OmitEmpty, had the error field lacked its omitempty tag.
OmitEmptyButError(name) == name \notin {"id", "error"}

\* The json tags of respOutput: every field but id is omitempty.
OmitEmpty(name) == name # "id"

\* json.Marshal of a respOutput: the keys emitted, in declaration order, and
\* their values.
Marshal(ro) ==
    LET empty(name) ==
            CASE name = "id" -> ro.Id = ""
              [] name = "status_code" -> ro.StatusCode = 0
              [] name = "status" -> ro.Status = ""
              [] name = "duration" -> ro.Duration = ""
              [] name = "body" -> ro.Body = <<>>
              [] OTHER -> ro.Error = ""
        emitted(name) == ~(OmitEmpty(name) /\ empty(name))
    IN [null |-> FALSE,
        keys |-> SelectSeq(<<"id", "status_code", "status", "duration", "body", "error">>, emitted),
        id |-> ro.Id, status_code |-> ro.StatusCode, status |-> ro.Status,
        duration |-> ro.Duration, body |-> ro.Body, error |-> ro.Error]

\* What encoding/json emits for a nil *Response.
JsonNull ==
    [null |-> TRUE, keys |-> <<>>, id |-> "", status_code |-> 0, status |-> "",
     duration |-> "", body |-> <<>>, error |-> ""]

\* Response.marshalErr
marshalErr(id, text) ==
    Marshal([Id |-> id, StatusCode |-> 0, Status |-> "", Duration |-> "", Body |-> <<>>,
             Error |-> text])

\* Reading the body of the unit c to its end (ioutil.ReadAll(resp), io.Copy(w,
\* resp.Body)) when the clock shows clk: the possible outcomes, each the
\* pieces read, the error, the stream's new state and the clock after it.
\* The http.Client timer armed by Do interrupts the read; a read that starts
\* after the timer fired gets the body only if the transport had buffered it.
ReadBody(c, clk) ==
    LET b == c.Response.Body
        rem == Remote(c.url)
        end == rem.hdrLat + rem.bodyLat
        complete == [data |-> rem.body, err |-> NoErr, state |-> "drained", clock |-> Max(clk, end)]
        failed == [data |-> rem.early, err |-> BodyTimeoutErr, state |-> "broken",
                   clock |-> Max(clk, b.deadline)]
    IN CASE b.state = "drained" ->
              {[data |-> <<>>, err |-> NoErr, state |-> "drained", clock |-> clk]}
         [] b.state = "broken" ->
              {[data |-> <<>>, err |-> BodyTimeoutErr, state |-> "broken", clock |-> clk]}
         [] b.state = "unread" /\ b.deadline > 0 /\ end >= b.deadline -> {failed}
         [] b.state = "unread" /\ b.deadline > 0 /\ clk >= b.deadline -> {complete, failed}
         [] OTHER -> {complete}

\* Response.MarshalJSON of a unit's record, for one outcome of reading its body.
MarshalJSON(r, o) ==
    LET ro == output(r) IN
    IF ro.Error # "" THEN marshalErr(r.id, ro.Error)
    ELSE IF o.err # NoErr THEN marshalErr(r.id, o.err.text)
    ELSE Marshal([ro EXCEPT !.Body = o.data])

\* writeErrTo, had the format ended with the error text.
writeErrToUnterminated(r, text) == <<"Id: ", r.id, ", Status: ", "error", "\n", text>>

\* Response.writeErrTo: fmt.Sprintf("Id: %v, Status: %v\n%v\n", r.id, "error", err)
writeErrTo(r, text) == <<"Id: ", r.id, ", Status: ", "error", "\n", text, "\n">>

\* The header line of Response.writeTo:
\* fmt.Sprintf("Id: %v, Status: %v, Duration: %v\n", r.Id, r.Status, resp.durationStr())
writeHeader(r) ==
    LET ro == output(r) IN
    <<"Id: ", ro.Id, ", Status: ", ro.Status, ", Duration: ", durationStr(r), "\n">>

-----------------------------------------------------------------------------
(* Process: output *)

errInvalidResponseType == [kind |-> "config", text |-> "Invalid Response Type specified"]

\* What Process hands back to its caller: the method has no result, and the
\* error processConns returned is dropped.
ProcessResult == NoErr

\* processConnsOn, had the content type been set once outputJson has
\* returned: the header is sent with the first Write, and a later Set is lost.
processConnsOnSetLate(sink) ==
    /\ i' = 1
    /\ rangeLen' = Len(conns)
    /\ resps' = <<>>
    /\ CASE responseType = typeDelimiter ->
              /\ pc' = IF Len(conns) = 0 THEN "returned" ELSE "delim"
              /\ w' = sink
              /\ retErr' = NoErr
         [] responseType = typeJson ->
              /\ w' = sink
              /\ pc' = "json"
              /\ retErr' = NoErr
         [] OTHER ->
              /\ retErr' = errInvalidResponseType
              /\ pc' = "returned"
              /\ w' = sink

\* processConns(o, sink) up to the formatter's first round: the switch on
\* o.responseType, and the length the formatter's loop runs to
\* (len(o.conns) in outputJson, range o.conns in outputDelimiter).
processConnsOn(sink) ==
    /\ i' = 1
    /\ rangeLen' = Len(conns)
    /\ resps' = <<>>
    /\ CASE responseType = typeDelimiter ->
              /\ pc' = IF Len(conns) = 0 THEN "returned" ELSE "delim"
              /\ w' = sink
              /\ retErr' = NoErr
         [] responseType = typeJson ->
              /\ w' = [sink EXCEPT !.ctype = "application/json"]
              /\ pc' = "json"
              /\ retErr' = NoErr
         [] OTHER ->
              /\ retErr' = errInvalidResponseType
              /\ pc' = "returned"
              /\ w' = sink

\* wg.Wait() returns and processConns picks the formatter.
processConns ==
    /\ pc = "launch"
    /\ i > rangeLen
    /\ WaitReturns
    /\ processConnsOn(w)
    /\ UNCHANGED <<conns, responseType, delimiter, timeout, wg, tasks, clock, fetched,
                   prev, targets, adders, cLock, req>>

\* processConns(o, w2) called once more on the batch Process has completed,
\* with a sink of its own and no fetch in between.
Reserialize ==
    /\ pc = "returned"
    /\ prev = <<>>
    /\ prev' = <<w>>
    /\ processConnsOn(EmptySink)
    /\ UNCHANGED <<conns, responseType, delimiter, timeout, wg, tasks, clock, fetched,
                   targets, adders, cLock, req>>

\* outputJsonMarshal, had MarshalJSON kept the body read error in the record.
outputJsonMarshalKeepingErr ==
    /\ pc = "json"
    /\ i <= rangeLen
    /\ LET r == conns[i].Response IN
         IF r.nil
         THEN /\ resps' = Append(resps, JsonNull)
              /\ UNCHANGED <<conns, clock>>
         ELSE IF output(r).Error # ""
         THEN /\ resps' = Append(resps, MarshalJSON(r, [err |-> NoErr, data |-> <<>>]))
              /\ UNCHANGED <<conns, clock>>
         ELSE \E o \in ReadBody(conns[i], clock) :
              /\ resps' = Append(resps, MarshalJSON(r, o))
              /\ conns' = [conns EXCEPT ![i].Response.Body.state = o.state,
                                        ![i].Response.err = o.err]
              /\ clock' = o.clock
    /\ i' = i + 1
    /\ UNCHANGED <<responseType, delimiter, timeout, pc, wg, tasks, w, retErr, fetched,
                   rangeLen, prev, targets, adders, cLock, req>>

\* json.Encoder marshals resps[i]: MarshalJSON of the i-th unit's record.
outputJsonMarshal ==
    /\ pc = "json"
    /\ i <= rangeLen
    /\ LET r == conns[i].Response IN
         IF r.nil
         THEN /\ resps' = Append(resps, JsonNull)
              /\ UNCHANGED <<conns, clock>>
         ELSE IF output(r).Error # ""
         THEN /\ resps' = Append(resps, MarshalJSON(r, [err |-> NoErr, data |-> <<>>]))
              /\ UNCHANGED <<conns, clock>>
         ELSE \E o \in ReadBody(conns[i], clock) :
              /\ resps' = Append(resps, MarshalJSON(r, o))
              /\ conns' = [conns EXCEPT ![i].Response.Body.state = o.state]
              /\ clock' = o.clock
    /\ i' = i + 1
    /\ UNCHANGED <<responseType, delimiter, timeout, pc, wg, tasks, w, retErr, fetched,
                   rangeLen, prev, targets, adders, cLock, req>>

\* encoder.Encode writes the array and outputJson, processConns and Process return.
outputJsonWrite ==
    /\ pc = "json"
    /\ i > rangeLen
    /\ w' = [w EXCEPT !.docs = Append(w.docs, resps)]
    /\ pc' = "returned"
    /\ UNCHANGED <<conns, responseType, delimiter, timeout, i, wg, tasks, resps, clock, retErr, fetched,
                   rangeLen, prev, targets, adders, cLock, req>>

\* One round of outputDelimiter's loop: writeTo of the i-th unit's record,
\* then the delimiter unless it was the last.
outputDelimiterStep ==
    /\ pc = "delim"
    /\ i <= rangeLen
    /\ LET r == conns[i].Response
           sep == IF i < Len(conns) THEN delimiter ELSE <<>>
           next == IF i < rangeLen THEN "delim" ELSE "returned"
       IN
         IF r.nil
         THEN /\ pc' = "panic"
              /\ UNCHANGED <<conns, w, clock, retErr>>
         ELSE IF output(r).Error # ""
         THEN /\ w' = [w EXCEPT !.text = w.text \o writeErrTo(r, output(r).Error) \o sep]
              /\ pc' = next
              /\ UNCHANGED <<conns, clock, retErr>>
         ELSE \E o \in ReadBody(conns[i], clock) :
              /\ conns' = [conns EXCEPT ![i].Response.Body.state = o.state]
              /\ clock' = o.clock
              /\ IF o.err # NoErr
                 THEN /\ w' = [w EXCEPT !.text = w.text \o writeHeader(r) \o o.data]
                      /\ retErr' = o.err
                      /\ pc' = "returned"
                 ELSE /\ w' = [w EXCEPT !.text = w.text \o writeHeader(r) \o o.data \o sep]
                      /\ pc' = next
                      /\ UNCHANGED retErr
    /\ i' = i + 1
    /\ UNCHANGED <<responseType, delimiter, timeout, wg, tasks, resps, fetched,
                   rangeLen, prev, targets, adders, cLock, req>>

-----------------------------------------------------------------------------
(* Specifications *)

Next ==
    \/ \E r \in Requests : Add(r)
    \/ \E t \in TimeoutChoices : SetTimeout(t)
    \/ \E d \in DelimiterChoices : SetDelimiter(d)
    \/ UseDelimeter
    \/ UseJson
    \/ Process
    \/ ProcessRange
    \/ Launch
    \/ \E k \in 1..MaxConns : fetchConnsFetch(k)
    \/ \E k \in 1..MaxConns : fetchConnsDone(k)
    \/ processConns
    \/ outputJsonMarshal
    \/ outputJsonWrite
    \/ outputDelimiterStep

Spec == Init /\ [][Next]_vars

\* Every started goroutine runs (the Go scheduler), every call to a remote
\* end returns (at the latest when the unit's timeout expires), and the
\* caller's goroutine runs on inside Process.
Fairness ==
    /\ \A k \in 1..MaxConns : WF_vars(fetchConnsFetch(k))
    /\ \A k \in 1..MaxConns : WF_vars(fetchConnsDone(k))
    /\ WF_vars(ProcessRange)
    /\ WF_vars(Launch)
    /\ WF_vars(processConns)
    /\ WF_vars(outputJsonMarshal)
    /\ WF_vars(outputJsonWrite)
    /\ WF_vars(outputDelimiterStep)

LiveSpec == Spec /\ Fairness

\* The values code of the package can store in the uint8 field
\* o.responseType: the two constants and one that is neither.
ResponseTypes == {typeJson, typeDelimiter, 2}

\* o.responseType = t, written directly (the field has no setter but
\* UseJson, UseDelimeter and SetDelimiter, which store the two constants).
SetResponseType(t) ==
    /\ Idle
    /\ responseType' = t
    /\ pc' = "idle"
    /\ UNCHANGED <<conns, delimiter, timeout, i, wg, tasks, resps, w, clock, retErr, fetched,
                   rangeLen, prev, targets, adders, cLock, req>>

ModeNext ==
    \/ Next
    \/ \E t \in ResponseTypes : SetResponseType(t)

ModeSpec == Init /\ [][ModeNext]_vars

\* The longest delimiter text tried, in pieces.
MaxDelimLen == 3

\* Every text of up to MaxDelimLen pieces over one token and the line break
\* (the empty text included).
DelimiterTexts == SeqsUpTo({"=", "\n"}, MaxDelimLen)

\* SetDelimiter applied to any text, on any freshly built or already
\* configured Orchestra.
DelimNext == \E d \in DelimiterTexts : SetDelimiter(d)

DelimSpec == Init /\ [][DelimNext]_vars

\* The batch Process completed is serialized a second time.
ReserNext ==
    \/ Next
    \/ Reserialize

ReserSpec == Init /\ [][ReserNext]_vars

-----------------------------------------------------------------------------
(* Add called by another goroutine while Process runs *)

\* A whole Add call of a second goroutine, between two steps of the running
\* Process: Add takes cLock, Process takes no lock, so nothing orders the
\* store to o.conns with Process' reads of it.
AddDuringProcess(r) ==
    /\ pc \in {"range", "launch", "json", "delim"}
    /\ Len(conns) < MaxConns
    /\ conns' = Append(conns, [NewConn(r) EXCEPT !.Timeout = timeout])
    /\ UNCHANGED <<responseType, delimiter, timeout, pc, i, wg, tasks, resps, w, clock, retErr, fetched,
                   rangeLen, prev, targets, adders, cLock, req>>

\* The requests the second goroutine adds.
LateRequests == {[id |-> "b", url |-> "nf"]}

ConcNext ==
    \/ Next
    \/ \E r \in LateRequests : AddDuringProcess(r)

ConcSpec == Init /\ [][ConcNext]_vars

-----------------------------------------------------------------------------
(* Add called from several goroutines at once *)

\* cLock.Lock(), had Add not taken the lock.
LockSkipped == TRUE

\* cLock.Lock() can return: the mutex is free.
LockAcquirable == cLock = 0

\* NewOrchestra has returned and the goroutines are about to call Add, each
\* with a request of its own.
AddInit ==
    /\ Constructed
    /\ \E rs \in SeqsUpTo(Requests, MaxAdders) :
           adders = [a \in 1..Len(rs) |-> [pc |-> "call", r |-> rs[a], local |-> <<>>]]

AddFrame ==
    UNCHANGED <<responseType, delimiter, timeout, pc, i, wg, tasks, resps, w, clock, retErr, fetched,
                rangeLen, prev, targets, req>>

\* o.cLock.Lock()
AddLock(a) ==
    /\ a \in 1..Len(adders)
    /\ adders[a].pc = "call"
    /\ LockAcquirable
    /\ cLock' = a
    /\ adders' = [adders EXCEPT ![a].pc = "locked"]
    /\ UNCHANGED conns
    /\ AddFrame

\* conn := NewConn(r); conn.Timeout = o.timeout; append(o.conns, conn)
\* evaluated: o.conns is read here.
AddAppend(a) ==
    /\ a \in 1..Len(adders)
    /\ adders[a].pc = "locked"
    /\ adders' = [adders EXCEPT ![a].pc = "appended",
                                ![a].local = Append(conns, [NewConn(adders[a].r) EXCEPT !.Timeout = timeout])]
    /\ UNCHANGED <<conns, cLock>>
    /\ AddFrame

\* o.conns = ...: the slice is stored.
AddStore(a) ==
    /\ a \in 1..Len(adders)
    /\ adders[a].pc = "appended"
    /\ conns' = adders[a].local
    /\ adders' = [adders EXCEPT ![a].pc = "stored"]
    /\ UNCHANGED cLock
    /\ AddFrame

\* The deferred o.cLock.Unlock(); Add returns.
AddUnlock(a) ==
    /\ a \in 1..Len(adders)
    /\ adders[a].pc = "stored"
    /\ cLock' = 0
    /\ adders' = [adders EXCEPT ![a].pc = "done"]
    /\ UNCHANGED conns
    /\ AddFrame

AddNext ==
    \/ \E a \in 1..MaxAdders : AddLock(a)
    \/ \E a \in 1..MaxAdders : AddAppend(a)
    \/ \E a \in 1..MaxAdders : AddStore(a)
    \/ \E a \in 1..MaxAdders : AddUnlock(a)

AddSpec == AddInit /\ [][AddNext]_vars

-----------------------------------------------------------------------------
(* The http handler: texts and numbers *)

\* How many comma separated entries a requests value holds at most.
MaxEntries == 2

\* The width of the integers of strconv.ParseInt(t, 10, 64) and of
\* time.Duration, scaled from 64 bits so that the arithmetic stays within
\* the checker's own integers; with durations counted in microseconds the
\* default timeout still fits.
IntBits == 25

MaxInt == 2 ^ (IntBits - 1) - 1

MinInt == 0 - 2 ^ (IntBits - 1)

\* The value of the low IntBits bits of x, read as a signed integer.
Wrap(x) ==
    LET m == x % (2 ^ IntBits) IN
    IF m > MaxInt THEN m - 2 ^ IntBits ELSE m

\* time.Duration(tms) * time.Millisecond in IntBits-wide two's complement
\* (the product is formed in two halves to stay within the checker's range).
MulMillisecond(tms) ==
    LET m == tms % (2 ^ IntBits)
        hi == m \div 1024
        lo == m % 1024
    IN Wrap(((hi * Millisecond) % (2 ^ (IntBits - 10))) * 1024 + lo * Millisecond)

\* strings.TrimSpace, had it returned its argument.
TrimSpaceNone(t) == t

RECURSIVE TrimLeft(_)
TrimLeft(t) == IF t # <<>> /\ t[1] = " " THEN TrimLeft(Tail(t)) ELSE t

RECURSIVE TrimRight(_)
TrimRight(t) == IF t # <<>> /\ t[Len(t)] = " " THEN TrimRight(SubSeq(t, 1, Len(t) - 1)) ELSE t

\* strings.TrimSpace
TrimSpace(t) == TrimRight(TrimLeft(t))

UpperLetters == <<"J", "S", "O", "N", "D", "E", "L", "I", "M", "T", "R", "X">>

LowerLetters == <<"j", "s", "o", "n", "d", "e", "l", "i", "m", "t", "r", "x">>

\* strings.ToLower, had it returned its argument.
ToLowerNone(t) == t

\* strings.ToLower, letter by letter.
ToLower(t) ==
    [k \in 1..Len(t) |->
        IF \E j \in 1..Len(UpperLetters) : UpperLetters[j] = t[k]
        THEN LowerLetters[CHOOSE j \in 1..Len(UpperLetters) : UpperLetters[j] = t[k]]
        ELSE t[k]]

\* The first position of the piece sep in t, 0 when there is none.
Index(t, sep) ==
    IF \E k \in 1..Len(t) : t[k] = sep
    THEN CHOOSE k \in 1..Len(t) : t[k] = sep /\ \A j \in 1..(k - 1) : t[j] # sep
    ELSE 0

\* strings.Split(t, sep): the texts between the separators (one text, t
\* itself, when there is no separator).
RECURSIVE Split(_, _)
Split(t, sep) ==
    IF Index(t, sep) = 0 THEN <<t>>
    ELSE <<SubSeq(t, 1, Index(t, sep) - 1)>> \o Split(SubSeq(t, Index(t, sep) + 1, Len(t)), sep)

\* SplitN2, had it cut at every separator.
SplitN2Every(t, sep) == Split(t, sep)

\* strings.SplitN(t, sep, 2): cut at the first separator only.
SplitN2(t, sep) ==
    IF Index(t, sep) = 0 THEN <<t>>
    ELSE <<SubSeq(t, 1, Index(t, sep) - 1), SubSeq(t, Index(t, sep) + 1, Len(t))>>

\* The Go string a text stands for: its pieces in a row.
RECURSIVE Join(_)
Join(t) == IF t = <<>> THEN "" ELSE t[1] \o Join(Tail(t))

Digits == <<"0", "1", "2", "3", "4", "5", "6", "7", "8", "9">>

DigitValue(ch) == (CHOOSE j \in 1..10 : Digits[j] = ch) - 1

IsDigit(ch) == \E j \in 1..10 : Digits[j] = ch

\* The magnitude of a run of digits, stopping at MaxInt + 1 (out of range).
RECURSIVE Magnitude(_, _)
Magnitude(t, acc) ==
    IF t = <<>> THEN acc
    ELSE IF acc * 10 + DigitValue(t[1]) > MaxInt + 1 THEN MaxInt + 1
    ELSE Magnitude(Tail(t), acc * 10 + DigitValue(t[1]))

\* tms, _ := strconv.ParseInt(t, 10, 64): 0 on a syntax error, the nearest
\* bound on a range error (the error itself is dropped).
ParseInt(t) ==
    LET neg == t # <<>> /\ t[1] = "-"
        ds == IF t # <<>> /\ t[1] \in {"-", "+"} THEN Tail(t) ELSE t
    IN IF ds = <<>> \/ \E k \in 1..Len(ds) : ~IsDigit(ds[k]) THEN 0
       ELSE LET mag == Magnitude(ds, 0) IN
            IF neg THEN 0 - mag
            ELSE IF mag > MaxInt THEN MaxInt ELSE mag

-----------------------------------------------------------------------------
(* The http handler *)

badRequestInvalidMsg == "Bad Request: entries should be in comma separated multiple 'id:url' format e.g. 'sampleid:http://url.com,sampleid2:http://url2.com'"

badRequestRequiredMsg == "Bad Request: required parameter 'requests' missing."

\* The entries a requests value is made of: two of the form id:url (one
\* padded with blanks), one without a colon, and the empty entry.
EntryTexts ==
    { <<"a", ":", "ok">>,
      <<" ", "b", " ", ":", " ", "nf", " ">>,
      <<"c", ":", "h", ":", "nf">>,
      <<"a">>,
      <<>> }

\* strings.Join(entries, ",")
RECURSIVE JoinEntries(_)
JoinEntries(es) ==
    IF es = <<>> THEN <<>>
    ELSE IF Len(es) = 1 THEN es[1]
    ELSE es[1] \o <<",">> \o JoinEntries(Tail(es))

\* The requests values tried: absent or empty, blank, and up to MaxEntries
\* entries separated by commas.
RequestTexts == {JoinEntries(es) : es \in SeqsUpTo(EntryTexts, MaxEntries)} \cup {<<" ", " ">>}

\* The type values tried, letter by letter (the empty text: absent).
TypeTexts ==
    { <<>>,
      <<"j", "s", "o", "n">>,
      <<"J", "S", "O", "N">>,
      <<"J", "s", "o", "n">>,
      <<" ", "j", "s", "o", "n", " ">>,
      <<"d", "e", "l", "i", "m", "i", "t", "e", "r">>,
      <<"D", "E", "L", "I", "M", "I", "T", "E", "R">>,
      <<"D", "e", "l", "i", "m", "i", "t", "e", "r", " ">>,
      <<"x", "m", "l">> }

\* The delimiter values tried (the empty text: absent).
DelimiterParamTexts == {<<>>, <<"000000">>}

\* The timeout values tried, character by character: absent, 2000 (plain
\* and padded), not a number, zero, negative, two numbers beyond
\* MaxInt / Millisecond and one beyond MaxInt.
TimeoutTexts ==
    { <<>>,
      <<"2", "0", "0", "0">>,
      <<" ", "2", "0", "0", "0", " ">>,
      <<"a", "b", "c">>,
      <<"0">>,
      <<"-", "5">>,
      <<"1", "6", "7", "7", "8">>,
      <<"3", "3", "5", "5", "5">>,
      <<"9", "9", "9", "9", "9", "9", "9", "9">> }

\* The form values of the requests served: any requests value, with either
\* type and delimiter or timeout given.
HandlerRequests ==
    { [requests |-> rs, type |-> ty, delimiter |-> de, timeout |-> <<>>] :
          rs \in RequestTexts, ty \in TypeTexts, de \in DelimiterParamTexts }
    \cup
    { [requests |-> rs, type |-> <<>>, delimiter |-> <<>>, timeout |-> tm] :
          rs \in RequestTexts, tm \in TimeoutTexts }

\* digestRequest
digestRequest(r) ==
    LET rs == TrimSpace(r.requests)
        rt == ToLower(TrimSpace(r.type))
        t == TrimSpace(r.timeout)
    IN [requests |-> rs,
        timeout |-> IF t # <<>> THEN MulMillisecond(ParseInt(t)) ELSE 0,
        respType |-> CASE rt = <<"j", "s", "o", "n">> -> typeJson
                       [] rt = <<"d", "e", "l", "i", "m", "i", "t", "e", "r">> -> typeDelimiter
                       [] OTHER -> -1,
        delimiter |-> r.delimiter]

\* handlerMode, had the handler passed on the delimiter whatever the type.
handlerModeAnyType(params) ==
    IF params.delimiter # <<>>
    THEN [responseType |-> typeDelimiter, delimiter |-> StoredDelimiter(params.delimiter)]
    ELSE [responseType |-> IF params.respType = typeDelimiter THEN typeDelimiter ELSE typeJson,
          delimiter |-> defaultDelimiter]

\* The mode and the delimiter of the Orchestra after the handler's switch
\* on params.respType (UseDelimeter and SetDelimiter, or UseJson, or no call).
handlerMode(params) ==
    IF params.respType > -1 /\ params.respType = typeDelimiter
    THEN [responseType |-> typeDelimiter,
          delimiter |-> IF params.delimiter # <<>> THEN StoredDelimiter(params.delimiter)
                        ELSE defaultDelimiter]
    ELSE [responseType |-> typeJson, delimiter |-> defaultDelimiter]

\* The http request has arrived; no Orchestra exists.
HandlerInit ==
    /\ req \in HandlerRequests
    /\ pc = "request"
    /\ conns = <<>>
    /\ responseType = typeJson
    /\ delimiter = <<>>
    /\ timeout = 0
    /\ targets = <<>>
    /\ i = 0
    /\ wg = 0
    /\ tasks = <<>>
    /\ resps = <<>>
    /\ w = EmptySink
    /\ clock = 0
    /\ retErr = NoErr
    /\ fetched = {}
    /\ rangeLen = 0
    /\ prev = <<>>
    /\ cLock = 0
    /\ adders = <<>>

\* handler up to its last line: the 400 answers, or the Orchestra built
\* with NewOrchestra and configured with SetTimeout and the mode switch.
handler ==
    /\ pc = "request"
    /\ LET params == digestRequest(req)
           kv == Split(params.requests, ",")
           str(k) == SplitN2(kv[k], ":")
           crs == [k \in 1..Len(kv) |->
                      [id |-> Join(TrimSpace(str(k)[1])), url |-> Join(TrimSpace(str(k)[2]))]]
           tmo == IF params.timeout > 0 THEN params.timeout ELSE defaultTimeout
       IN IF params.requests = <<>>
          THEN /\ w' = [w EXCEPT !.code = 400, !.text = <<badRequestRequiredMsg>>]
               /\ pc' = "responded"
               /\ UNCHANGED <<conns, responseType, delimiter, timeout, targets>>
          ELSE IF \E k \in 1..Len(kv) : Len(str(k)) < 2
          THEN /\ w' = [w EXCEPT !.code = 400, !.text = <<badRequestInvalidMsg>>]
               /\ pc' = "responded"
               /\ UNCHANGED <<conns, responseType, delimiter, timeout, targets>>
          ELSE /\ conns' = [k \in 1..Len(crs) |-> [NewConn(crs[k]) EXCEPT !.Timeout = tmo]]
               /\ timeout' = tmo
               /\ responseType' = handlerMode(params).responseType
               /\ delimiter' = handlerMode(params).delimiter
               /\ targets' = <<crs>>
               /\ pc' = "idle"
               /\ UNCHANGED w
    /\ UNCHANGED <<i, wg, tasks, resps, clock, retErr, fetched, rangeLen, prev, adders, cLock, req>>

\* orchestra.Process(w), the handler's last line.
handlerProcess == pc = "idle" /\ Process

HandlerNext ==
    \/ handler
    \/ handlerProcess
    \/ ProcessRange
    \/ Launch
    \/ \E k \in 1..MaxEntries : fetchConnsFetch(k)
    \/ \E k \in 1..MaxEntries : fetchConnsDone(k)
    \/ processConns
    \/ outputJsonMarshal
    \/ outputJsonWrite
    \/ outputDelimiterStep

HandlerSpec == HandlerInit /\ [][HandlerNext]_vars

-----------------------------------------------------------------------------
(* Reading the state for the properties *)

\* Process has returned and nothing was called since.
Returned == pc = "returned"

\* The ids of the registered units, in registration order.
Ids == [k \in 1..Len(conns) |-> conns[k].id]

\* The unit k was fetched by the running (or just returned) Process.
Fresh(k) == pc \notin {"new", "idle"} /\ k \in 1..Len(tasks) /\ tasks[k].pc \in {"stored", "done"}

\* The positions of the delimited output where a block starts.
BlockStarts(text) == SelectSeq([p \in 1..Len(text) |-> p], LAMBDA p : text[p] = "Id: ")

\* The id and the status of the k-th block of the delimited output.
BlockId(text, k) == text[BlockStarts(text)[k] + 1]

BlockStatus(text, k) == text[BlockStarts(text)[k] + 3]

BlockIds(text) == [k \in 1..Len(BlockStarts(text)) |-> BlockId(text, k)]

\* The pieces of the k-th block: from its start to the next block's start
\* (or the end of the output).
BlockText(text, k) ==
    LET st == BlockStarts(text) IN
    SubSeq(text, st[k], IF k < Len(st) THEN st[k + 1] - 1 ELSE Len(text))

\* How often the text d occurs in text.
Occurrences(text, d) ==
    Cardinality({p \in 1..(Len(text) - Len(d) + 1) : SubSeq(text, p, p + Len(d) - 1) = d})

\* The remote call of the unit c does not finish within its timeout: the
\* headers, or the end of the body, come at or after the deadline.
TimedOut(c) ==
    LET rem == Remote(c.url) IN
    ~rem.malformed /\ rem.hdrLat + rem.bodyLat >= c.Timeout

\* The body of some unit failed to read.
SomeBodyBroken == \E k \in 1..Len(conns) : conns[k].Response.Body.state = "broken"

-----------------------------------------------------------------------------
(* Properties *)

\* C1: when Process has returned, the output (JSON or delimited) has exactly
\* one entry per registered unit and entry k carries the id of unit k,
\* whatever the order in which the fetches completed.
C1_OutputHasEveryUnitInOrder ==
    Returned =>
        IF responseType = typeJson
        THEN /\ Len(w.docs) = 1
             /\ Len(w.docs[1]) = Len(conns)
             /\ \A k \in 1..Len(conns) : ~w.docs[1][k].null /\ w.docs[1][k].id = conns[k].id
        ELSE BlockIds(w.text) = Ids

\* C2: inside a Process call no formatter runs and nothing has reached the
\* sink (no content type, no text, no JSON document) unless every unit has
\* its goroutine started and every started goroutine has finished.
C2_Barrier ==
    (pc \in {"launch", "json", "delim", "returned", "panic"}
        /\ (pc \in {"json", "delim"} \/ w # EmptySink))
    => /\ Len(tasks) = Len(conns)
       /\ \A k \in 1..Len(tasks) : tasks[k].pc = "done"

C2_Witness == pc = "delim" /\ Len(conns) = 2 /\ i = 2 /\ w.text # <<>>

\* C3: a Process call that has begun eventually returns, and whenever
\* Process has returned every unit holds a result record.
C3_ProcessReturnsWithRecords ==
    /\ (pc = "launch") ~> (pc = "returned")
    /\ [](Returned => \A k \in 1..Len(conns) : ~conns[k].Response.nil)

C3_Witness ==
    /\ Returned
    /\ Len(conns) = 2
    /\ conns[1].Response.err # NoErr
    /\ conns[2].Response.err = NoErr

\* C4: the record a unit's goroutine stored is a function of that unit's own
\* id, url and timeout alone: failure for a malformed url, a timeout failure
\* when the headers come at or after the unit's timeout, and otherwise the
\* target's status with the unit's own elapsed time - whatever the other
\* units of the batch are and whenever they complete.
C4_FetchIsolation ==
    \A k \in 1..Len(conns) :
        Fresh(k) =>
            LET c == conns[k]
                r == c.Response
                rem == Remote(c.url)
            IN /\ ~r.nil
               /\ r.id = c.id
               /\ IF rem.malformed THEN r.err = ParseErr /\ ~r.http
                  ELSE IF rem.hdrLat >= c.Timeout THEN r.err = HeaderTimeoutErr /\ ~r.http
                  ELSE /\ r.err = NoErr
                       /\ r.http
                       /\ r.StatusCode = rem.StatusCode
                       /\ r.duration = rem.hdrLat
                       /\ r.Body.deadline = c.Timeout

C4_Witness ==
    /\ Returned
    /\ Len(conns) = 2
    /\ conns[1].url = "slow" /\ conns[1].Response.err = HeaderTimeoutErr
    /\ conns[2].url = "ok" /\ conns[2].Response.StatusCode = 200

\* C5: in delimited mode, when the body of a unit failed to read while its
\* block was written, the output Process leaves still has one block for
\* every unit of the batch, in order.
C5_BodyFailureContained ==
    (Returned /\ responseType = typeDelimiter /\ SomeBodyBroken) => BlockIds(w.text) = Ids

\* C6: in both modes a unit whose remote call did not finish within its
\* timeout is rendered as a failure entry with a non-empty error text, never
\* as a success entry with a status line.
C6_TimeoutRenderedAsFailure ==
    Returned =>
        IF responseType = typeJson
        THEN \A k \in 1..Len(conns) :
                 TimedOut(conns[k]) =>
                     /\ w.docs[1][k].keys = <<"id", "error">>
                     /\ w.docs[1][k].error # ""
        ELSE \A k \in 1..Len(BlockStarts(w.text)) :
                 TimedOut(conns[k]) => BlockStatus(w.text, k) = "error"

FailureShape(r) ==
    /\ r.err # NoErr
    /\ r.err.text # ""
    /\ ~r.http
    /\ r.StatusCode = 0
    /\ r.Status = ""
    /\ r.duration = 0
    /\ r.Body = NoBody

SuccessShape(r) ==
    /\ r.err = NoErr
    /\ r.http
    /\ r.StatusCode > 0
    /\ r.Status # ""
    /\ r.Body.state # "none"

\* C8: a unit's Response is nil exactly as long as no Fetch of the unit has
\* returned, and a stored Response has exactly one of the two shapes.
C8_ResultShape ==
    \A k \in 1..Len(conns) :
        LET r == conns[k].Response IN
        /\ r.nil <=> k \notin fetched
        /\ ~r.nil => (FailureShape(r) /\ ~SuccessShape(r)) \/ (SuccessShape(r) /\ ~FailureShape(r))

C8_Witness ==
    /\ Len(conns) = 2
    /\ pc = "launch"
    /\ conns[1].Response.err = ParseErr
    /\ SuccessShape(conns[2].Response)

\* C9 as stated: in JSON mode the object of every success record has
\* exactly id, status_code, status, duration and body, the object of every
\* failure record exactly id and error.
C9_JsonShapeByRecord ==
    (Returned /\ responseType = typeJson) =>
        /\ Len(w.docs) = 1
        /\ Len(w.docs[1]) = Len(conns)
        /\ \A k \in 1..Len(conns) :
               w.docs[1][k].keys =
                   IF conns[k].Response.err = NoErr
                   THEN <<"id", "status_code", "status", "duration", "body">>
                   ELSE <<"id", "error">>

\* C9 as amended: in JSON mode the output is one array with one object per
\* unit, in order. A success record whose body was read to its end gives id,
\* status_code, status, duration "<integer>ms" and - only when the body is
\* not empty - body, and no error; a failure record, and a success record
\* whose body failed to read, gives id and a non-empty error only. A field
\* outside the object's shape is omitted, never emitted null or empty.
C9_JsonShapeAmended ==
    (Returned /\ responseType = typeJson) =>
        /\ Len(w.docs) = 1
        /\ Len(w.docs[1]) = Len(conns)
        /\ \A k \in 1..Len(conns) :
               LET r == conns[k].Response
                   o == w.docs[1][k]
                   full == Remote(conns[k].url).body
               IN /\ ~o.null
                  /\ o.id = conns[k].id
                  /\ IF r.err # NoErr
                     THEN o.keys = <<"id", "error">> /\ o.error = r.err.text /\ o.error # ""
                     ELSE IF r.Body.state = "broken"
                     THEN o.keys = <<"id", "error">> /\ o.error # ""
                     ELSE /\ o.keys = <<"id", "status_code", "status", "duration">>
                                         \o (IF full = <<>> THEN <<>> ELSE <<"body">>)
                          /\ o.status_code = r.StatusCode /\ o.status_code # 0
                          /\ o.status = r.Status /\ o.status # ""
                          /\ o.duration = ToString(r.duration \div Millisecond) \o "ms"
                          /\ o.body = full
                          /\ o.error = ""

C9_Witness ==
    /\ Returned
    /\ responseType = typeJson
    /\ Len(conns) = 2
    /\ w.docs[1][1].keys = <<"id", "status_code", "status", "duration">>
    /\ w.docs[1][2].keys = <<"id", "status_code", "status", "duration", "body">>

\* C10: in delimited mode the output for N units is the N blocks in
\* registration order with the stored delimiter between consecutive blocks
\* only - N-1 delimiters, none leading, none trailing - and a success block
\* is the header line, a line break and the raw body.
C10_DelimitedLayout ==
    (Returned /\ responseType = typeDelimiter /\ Len(conns) > 0) =>
        LET text == w.text
            n == Len(conns)
        IN /\ BlockIds(text) = Ids
           /\ Occurrences(text, delimiter) = n - 1
           /\ text[1] = "Id: "
           /\ SubSeq(text, Len(text) - Len(delimiter) + 1, Len(text)) # delimiter
           /\ \A k \in 1..n :
                  conns[k].Response.err = NoErr =>
                      BlockText(text, k) =
                          <<"Id: ", conns[k].id, ", Status: ", conns[k].Response.Status,
                            ", Duration: ", durationStr(conns[k].Response), "\n">>
                          \o Remote(conns[k].url).body
                          \o (IF k < n THEN delimiter ELSE <<>>)

\* The block of the failure record of unit k as its header line, a line
\* break and the error text, and what follows the block in the output.
FailureBlock(k) ==
    <<"Id: ", conns[k].id, ", Status: ", "error", "\n", conns[k].Response.err.text>>

AfterBlock(k) == IF k < Len(conns) THEN delimiter ELSE <<>>

\* C11: in delimited mode the block of a failure record is the header line
\* "Id: <id>, Status: error", one line break and the error text, and nothing
\* after the error text: in last position it ends the output, elsewhere the
\* delimiter alone follows it.
C11_FailureBlockBare ==
    (Returned /\ responseType = typeDelimiter) =>
        \A k \in 1..Len(BlockStarts(w.text)) :
            conns[k].Response.err # NoErr =>
                BlockText(w.text, k) = FailureBlock(k) \o AfterBlock(k)

\* C11, amended: the block of a failure record is the header line, the error
\* text and a line break that ends it; in last position that line break
\* ends the output, elsewhere the delimiter follows it.
C11_FailureBlockTerminated ==
    (Returned /\ responseType = typeDelimiter) =>
        \A k \in 1..Len(BlockStarts(w.text)) :
            conns[k].Response.err # NoErr =>
                BlockText(w.text, k) = FailureBlock(k) \o <<"\n">> \o AfterBlock(k)

C11_Witness ==
    /\ Returned
    /\ responseType = typeDelimiter
    /\ Len(conns) = 2
    /\ Len(BlockStarts(w.text)) = 2
    /\ conns[1].Response.err = ParseErr
    /\ conns[2].Response.err = HeaderTimeoutErr

\* C12: SetTimeout is a bulk setting - at every moment of a sequential use
\* of NewOrchestra, Add and SetTimeout (and of Process between them) every
\* registered unit's timeout equals the Orchestra's current timeout, and a
\* step that changes the Orchestra's timeout leaves every unit with the new
\* value.
C12_UnitTimeoutsFollow == \A k \in 1..Len(conns) : conns[k].Timeout = timeout

\* A unit from NewOrchestra and a unit from Add, after a SetTimeout.
C12_Witness ==
    /\ targets # <<>>
    /\ Len(targets[1]) = 1
    /\ Len(conns) = 2
    /\ timeout = 2 * Second
    /\ conns[1].Timeout = 2 * Second

\* The positions of the units Add appended (known until the first Process).
Added == IF targets = <<>> THEN {} ELSE (Len(targets[1]) + 1)..Len(conns)

\* C13: a unit appended by Add takes the Orchestra's timeout current at the
\* Add call, and no later step changes the timeout of a unit Add appended.
C13_AddedTimeoutFrozen ==
    [][ /\ Len(conns') = Len(conns) + 1 => conns'[Len(conns')].Timeout = timeout
        /\ \A k \in Added : conns'[k].Timeout = conns[k].Timeout ]_vars

\* C13, amended: a unit appended by Add takes the Orchestra's timeout
\* current at the Add call; a later step changes it only when it changes
\* the Orchestra's timeout (SetTimeout), and then to the new value.
C13_AddedTimeoutFollows ==
    [][ /\ Len(conns') = Len(conns) + 1 => conns'[Len(conns')].Timeout = timeout
        /\ \A k \in Added :
               conns'[k].Timeout = IF timeout' # timeout THEN timeout' ELSE conns[k].Timeout ]_vars

\* Only Add-appended units, after a SetTimeout.
C13_Witness ==
    /\ targets = << <<>> >>
    /\ Len(conns) = 2
    /\ timeout = 2 * Second
    /\ conns[2].Timeout = 2 * Second

\* The one-to-one assignments of the adders to the positions after the n-th.
Placements(k) == {f \in [1..k -> 1..k] : \A a, b \in 1..k : f[a] = f[b] => a = b}

\* C14: Add is safe against concurrent Add - whatever the interleaving of k
\* concurrent Add calls on an Orchestra of n units, the n units keep their
\* positions throughout, and when all calls have returned the sequence
\* holds exactly n+k units: the n earlier ones and, after them, one unit
\* per call (none lost, none overwritten, none twice).
C14_ConcurrentAdd ==
    LET n == Len(targets[1])
        k == Len(adders)
    IN /\ Len(conns) >= n
       /\ \A j \in 1..n : conns[j] = [NewConn(targets[1][j]) EXCEPT !.Timeout = defaultTimeout]
       /\ (\A a \in 1..k : adders[a].pc = "done") =>
              /\ Len(conns) = n + k
              /\ \E f \in Placements(k) :
                     \A a \in 1..k :
                         conns[n + f[a]] = [NewConn(adders[a].r) EXCEPT !.Timeout = timeout]

\* Two calls with different targets have returned, the second caller's unit
\* placed before the first caller's, behind one earlier unit.
C14_Witness ==
    /\ Len(targets[1]) = 1
    /\ Len(adders) = 2
    /\ adders[1].pc = "done" /\ adders[2].pc = "done"
    /\ adders[1].r # adders[2].r
    /\ Len(conns) = 3
    /\ conns[2].url = adders[2].r.url
    /\ conns[3].url = adders[1].r.url

\* The goroutines of the running Process that have not called wg.Done yet.
Pending == {k \in 1..Len(tasks) : tasks[k].pc # "done"}

\* C15: the batch is fixed when Process is invoked, also when Add appends a
\* unit while Process runs - once the fan-out loop is over the barrier
\* counts exactly the goroutines still running (the counter never drops
\* below zero), a formatter runs over exactly the units that were launched,
\* and no unit is written that was not fetched (no null entry, no nil
\* record reached by writeTo).
C15_BatchFixedAtInvocation ==
    /\ pc # "panic"
    /\ (pc = "launch" /\ i > rangeLen) => wg = Cardinality(Pending)
    /\ pc \in {"json", "delim"} => (rangeLen = Len(tasks) /\ Pending = {})
    /\ (Returned /\ responseType = typeJson /\ prev = <<>>) =>
           \A k \in 1..Len(w.docs[1]) : ~w.docs[1][k].null

\* C16: serializing the completed batch a second time through the same
\* formatter, with no fetch in between, gives the output of the first time
\* (content type, text and JSON document alike): the bodies read the first
\* time are there again the second time.
C16_ReserializeSame == (Returned /\ prev # <<>>) => w = prev[1]

\* C17: body reading is lazy - the body of a record the running Process
\* fetched is untouched when Fetch has stored the record, and has been read
\* only if every goroutine of the call has finished (the barrier), a
\* formatter runs or has run, and its loop has passed that unit.
C17_BodyReadLazily ==
    \A k \in 1..Len(conns) :
        (Fresh(k) /\ conns[k].Response.http /\ conns[k].Response.Body.state # "unread") =>
            /\ pc \in {"json", "delim", "returned"}
            /\ Pending = {}
            /\ k < i

\* The JSON formatter has read the first unit's body and not yet the second's.
C17_Witness ==
    /\ pc = "json"
    /\ Len(conns) = 2
    /\ i = 2
    /\ Fresh(1) /\ Fresh(2)
    /\ conns[1].Response.Body.state = "drained"
    /\ conns[2].Response.Body.state = "unread"

\* C18: every response body a unit obtained is closed once it was read or
\* discarded - when Process has returned, in either mode and also when a
\* body read failed, no unit holds a body that is still open.
C18_BodiesClosed ==
    Returned => \A k \in 1..Len(conns) : conns[k].Response.http => conns[k].Response.Body.closed

C20_FreshDefaults ==
    pc = "new" =>
        /\ responseType = typeJson
        /\ delimiter = <<"\n", "---XXX---", "\n">>
        /\ timeout = 10000 * Millisecond
        /\ Len(conns) = Len(targets[1])
        /\ \A k \in 1..Len(conns) :
               /\ conns[k].id = targets[1][k].id
               /\ conns[k].url = targets[1][k].url
               /\ conns[k].Timeout = 10000 * Millisecond
               /\ conns[k].Response.nil

C20_Witness ==
    /\ pc = "new"
    /\ Len(targets[1]) = 2
    /\ targets[1][1] # targets[1][2]
    /\ conns[2].url = "stall"

\* The last Len(d) pieces of text are d.
EndsWith(text, d) ==
    Len(text) >= Len(d) /\ SubSeq(text, Len(text) - Len(d) + 1, Len(text)) = d

\* C21: switching the output mode keeps the delimiter - the stored delimiter
\* changes only in a SetDelimiter call (so UseJson and UseDelimeter leave it,
\* and it is the default one until the first SetDelimiter), and delimited
\* output separates its blocks with the delimiter stored at that time.
C21_ModeSwitchKeepsDelimiter ==
    /\ [][ delimiter' # delimiter => \E d \in DelimiterChoices : SetDelimiter(d) ]_vars
    /\ []( (Returned /\ responseType = typeDelimiter /\ Len(BlockStarts(w.text)) = 2) =>
               EndsWith(BlockText(w.text, 1), delimiter) )

\* JSON mode with a delimiter that is not the default: SetDelimiter, then
\* UseJson, then a Process.
C21_Witness ==
    /\ Returned
    /\ responseType = typeJson
    /\ delimiter = <<"\n", "====", "\n">>
    /\ Len(conns) = 2

\* C22: for every text d, after SetDelimiter(d) the stored delimiter is
\* "\n"+d+"\n" when d does not end with a line break and "\n"+d when it
\* does; it begins and ends with a line break (and so holds at least two
\* pieces), and the mode is delimited.
C22_DelimiterFramed ==
    [][ \A d \in DelimiterTexts :
            SetDelimiter(d) =>
                /\ delimiter' = IF d # <<>> /\ d[Len(d)] = "\n"
                                THEN <<"\n">> \o d
                                ELSE <<"\n">> \o d \o <<"\n">>
                /\ Len(delimiter') >= 2
                /\ delimiter'[1] = "\n"
                /\ delimiter'[Len(delimiter')] = "\n"
                /\ responseType' = typeDelimiter ]_vars

\* Stored from a text with an inner line break ("=\n=" or "=\n=\n").
C22_Witness == delimiter = <<"\n", "=", "\n", "=", "\n">>

\* The requests value is missing, empty or blank.
RequestsBlank == \A k \in 1..Len(req.requests) : req.requests[k] = " "

\* Some comma separated entry of the requests value holds no colon: two
\* neighbouring boundaries (a comma, or an end of the text) with none between.
SomeEntryWithoutColon ==
    LET t == req.requests
        bounds == {0, Len(t) + 1} \cup {k \in 1..Len(t) : t[k] = ","}
    IN \E p, q \in bounds :
           /\ p < q
           /\ \A k \in (p + 1)..(q - 1) : t[k] \notin {",", ":"}

\* The handler has answered 400 with msg and nothing else has happened: no
\* Orchestra, no unit, no goroutine, no fetch.
Rejected(msg) ==
    /\ pc = "responded"
    /\ w = [EmptySink EXCEPT !.code = 400, !.text = <<msg>>]
    /\ conns = <<>>
    /\ targets = <<>>
    /\ tasks = <<>>
    /\ fetched = {}

\* C23: the handler rejects bad input at the boundary - a requests value
\* that is missing, empty or blank is answered 400 with the "required"
\* message, one with an entry without ':' (whatever the other entries) 400
\* with the "invalid" message, and in both cases no Orchestra is built and
\* no entry is fetched.
C23_BadInputRejected ==
    pc # "request" =>
        /\ RequestsBlank => Rejected(badRequestRequiredMsg)
        /\ (~RequestsBlank /\ SomeEntryWithoutColon) => Rejected(badRequestInvalidMsg)

\* A well-formed entry followed by one without a colon was rejected.
C23_Witness ==
    /\ pc = "responded"
    /\ req.requests = <<"a", ":", "ok", ",", "a">>
    /\ w.code = 400

\* The type value without its blanks.
TypeGiven == SelectSeq(req.type, LAMBDA ch : ch # " ")

\* The type value is the word, each letter in either case.
TypeIs(lower, upper) ==
    /\ Len(TypeGiven) = Len(lower)
    /\ \A k \in 1..Len(lower) : TypeGiven[k] \in {lower[k], upper[k]}

TypeIsJson == TypeIs(<<"j", "s", "o", "n">>, <<"J", "S", "O", "N">>)

TypeIsDelimiter ==
    TypeIs(<<"d", "e", "l", "i", "m", "i", "t", "e", "r">>,
           <<"D", "E", "L", "I", "M", "I", "T", "E", "R">>)

\* The handler has built the Orchestra (and may have run Process on it).
Configured == pc \notin {"request", "responded"}

\* The response is the JSON serialization / the delimited text.
JsonWritten == w.ctype = "application/json" /\ Len(w.docs) = 1 /\ w.text = <<>>

DelimitedWritten == w.ctype = "" /\ w.docs = <<>> /\ w.text # <<>>

\* C24: the handler selects the mode from type without regard to letter
\* case or surrounding blanks - delimiter gives delimited output, json and
\* an absent type give JSON output - and the Orchestra's mode is always one
\* of the two.
C24_TypeCaseInsensitive ==
    Configured =>
        /\ responseType \in {typeJson, typeDelimiter}
        /\ TypeIsDelimiter => (responseType = typeDelimiter /\ (Returned => DelimitedWritten))
        /\ (TypeIsJson \/ req.type = <<>>) => (responseType = typeJson /\ (Returned => JsonWritten))

C24_Witness ==
    /\ Returned
    /\ req.type = <<"D", "e", "l", "i", "m", "i", "t", "e", "r", " ">>
    /\ DelimitedWritten
    /\ Len(conns) = 2

\* C25: the delimiter parameter counts only with type=delimiter - with type
\* absent or json the Orchestra keeps JSON mode and the default delimiter
\* and the response is the JSON serialization whatever delimiter is; with
\* type=delimiter and no delimiter the default delimiter separates the
\* blocks, and with a delimiter its stored form does.
C25_DelimiterOnlyWithType ==
    Configured =>
        /\ (TypeIsJson \/ req.type = <<>>) =>
               /\ responseType = typeJson
               /\ delimiter = defaultDelimiter
               /\ Returned => JsonWritten
        /\ TypeIsDelimiter =>
               /\ delimiter = IF req.delimiter = <<>> THEN defaultDelimiter
                               ELSE <<"\n">> \o req.delimiter \o <<"\n">>
               /\ (Returned /\ Len(conns) = 2) => Occurrences(w.text, delimiter) = 1

\* JSON was written although a delimiter was given.
C25_Witness ==
    /\ Returned
    /\ req.type = <<>>
    /\ req.delimiter = <<"000000">>
    /\ JsonWritten
    /\ Len(conns) = 2

\* The timeout value without its blanks; whether it is written as an
\* integer, and whether that integer is within the range of the integer type.
TimeoutGiven == SelectSeq(req.timeout, LAMBDA ch : ch # " ")

TimeoutDigits ==
    IF TimeoutGiven # <<>> /\ TimeoutGiven[1] \in {"-", "+"} THEN Tail(TimeoutGiven) ELSE TimeoutGiven

TimeoutIsInteger == TimeoutDigits # <<>> /\ \A k \in 1..Len(TimeoutDigits) : IsDigit(TimeoutDigits[k])

TimeoutInRange == Magnitude(TimeoutDigits, 0) <= MaxInt

\* C26: for every integer n given as timeout within the range of the integer
\* type, every unit's timeout is exactly n milliseconds when n > 0, and the
\* default of 10,000 ms stays in force when timeout is absent, not an
\* integer, or n <= 0; no n gives a different positive timeout.
C26_TimeoutExactMilliseconds ==
    Configured =>
        \A k \in 1..Len(conns) :
            IF TimeoutIsInteger /\ ~TimeoutInRange THEN TRUE
            ELSE IF TimeoutIsInteger /\ ParseInt(TimeoutGiven) > 0
            THEN /\ conns[k].Timeout > 0
                 /\ conns[k].Timeout % Millisecond = 0
                 /\ conns[k].Timeout \div Millisecond = ParseInt(TimeoutGiven)
            ELSE conns[k].Timeout = 10000 * Millisecond

\* C27: every Process call on the same Orchestra - the first and any later
\* one, whatever setter was called in between - fetches every unit again
\* and emits the complete output in the mode set at that call: one entry
\* per unit in registration order, a success entry carrying the body the
\* target sent for this call.
C27_ProcessAgainComplete ==
    Returned =>
        /\ \A k \in 1..Len(conns) : Fresh(k)
        /\ IF responseType = typeJson
           THEN /\ JsonWritten
                /\ Len(w.docs[1]) = Len(conns)
                /\ \A k \in 1..Len(conns) :
                       LET o == w.docs[1][k] IN
                       /\ ~o.null
                       /\ o.id = conns[k].id
                       /\ o.error = "" => o.body = Remote(conns[k].url).body
           ELSE /\ w.docs = <<>>
                /\ BlockIds(w.text) = Ids
                /\ \A k \in 1..Len(conns) :
                       conns[k].Response.err = NoErr =>
                           BlockText(w.text, k) =
                               writeHeader(conns[k].Response) \o Remote(conns[k].url).body
                               \o AfterBlock(k)

\* The requests of the registered units, in registration order.
Registered == [k \in 1..Len(conns) |-> [id |-> conns[k].id, url |-> conns[k].url]]

\* The JSON entry of a unit that NewOrchestra built from r and Process
\* fetched with the default timeout (which no target of Requests exceeds).
EntryOf(r) ==
    MarshalJSON(Fetch([NewConn(r) EXCEPT !.Timeout = defaultTimeout]),
                [err |-> NoErr, data |-> Remote(r.url).body])

\* C28: Add appends - before the first Process the units are those of
\* NewOrchestra, in place, followed by the added ones, and with the
\* settings untouched the Orchestra is the very one NewOrchestra builds from
\* all the requests at once; Process then fetches the added unit in the same
\* batch and writes, for every unit and the added one last, the entry the
\* Orchestra built at once would write.
C28_AddAppends ==
    /\ targets # <<>> =>
           /\ Len(conns) >= Len(targets[1])
           /\ SubSeq(Registered, 1, Len(targets[1])) = targets[1]
           /\ (timeout = defaultTimeout /\ responseType = typeJson /\ delimiter = defaultDelimiter)
                  => NewOrchestra(Registered)
    /\ (Returned /\ timeout = defaultTimeout /\ responseType = typeJson) =>
           /\ \A k \in 1..Len(conns) : Fresh(k)
           /\ w.docs = << [k \in 1..Len(conns) |-> EntryOf(Registered[k])] >>

\* One unit from NewOrchestra and, behind it, one from Add.
C28_Witness ==
    /\ pc = "idle"
    /\ targets = << <<[id |-> "a", url |-> "ok"]>> >>
    /\ Registered = <<[id |-> "a", url |-> "ok"], [id |-> "b", url |-> "nf"]>>
    /\ NewOrchestra(Registered)

\* The goroutines of the running Process that were handed the unit c.
Owners(c) == {k \in 1..Len(tasks) : tasks[k].conn = c}

\* Between the go statements and the return of wg.Wait().
FanOut == pc = "launch"

\* One goroutine per unit of the batch: never two for one unit, and one for
\* each once the loop is over.
OneTaskPerUnit ==
    FanOut =>
        /\ \A c \in 1..Len(conns) : Cardinality(Owners(c)) <= 1
        /\ \A k \in 1..Len(tasks) : tasks[k].conn \in 1..Len(conns)
        /\ i > rangeLen => \A c \in 1..Len(conns) : Cardinality(Owners(c)) = 1

\* A record written during the fan-out is written by the unit's own
\* goroutine, in the one step that takes it from fetching to stored, and
\* no other unit changes in that step.
WrittenByOwnerOnce ==
    FanOut =>
        \A c \in 1..Len(conns) :
            conns'[c] # conns[c] =>
                /\ \E k \in Owners(c) : tasks[k].pc = "fetch" /\ tasks'[k].pc = "stored"
                /\ \A d \in 1..Len(conns) \ {c} : conns'[d] = conns[d]

\* A goroutine never goes back to fetching, so it writes once.
NoSecondWrite ==
    (FanOut /\ pc' = "launch") =>
        /\ Len(tasks') >= Len(tasks)
        /\ \A k \in 1..Len(tasks) :
               /\ tasks'[k].conn = tasks[k].conn
               /\ tasks[k].pc # "fetch" => tasks'[k].pc # "fetch"

\* C29: within one Process exactly one goroutine is started per unit, each
\* unit's record is written once, and only by the goroutine that was handed
\* that unit, in every interleaving of the goroutines; when wg.Wait() has
\* returned every unit's record is the one its goroutine stored.
C29_OneWriterPerUnit ==
    /\ [](OneTaskPerUnit)
    /\ [][WrittenByOwnerOnce /\ NoSecondWrite]_vars
    /\ []((pc \in {"json", "delim", "returned"}) =>
             \A c \in 1..Len(conns) : Owners(c) # {} /\ \A k \in Owners(c) : tasks[k].pc = "done")

\* The second goroutine has stored its record and ended while the first is
\* still fetching.
C29_Witness ==
    /\ FanOut
    /\ Len(tasks) = 2
    /\ tasks[1].pc = "fetch" /\ conns[1].Response.nil
    /\ tasks[2].pc = "done" /\ ~conns[2].Response.nil

\* What a record holds apart from how far its body stream was read.
RecordOf(c) ==
    LET r == c.Response
    IN <<r.nil, r.http, r.id, r.err, r.duration, r.StatusCode, r.Status, r.Body.deadline,
         r.Body.closed>>

\* The step is the store of unit k's record by its own goroutine.
StoredByFetch(k) ==
    FanOut /\ \E j \in Owners(k) : tasks[j].pc = "fetch" /\ tasks'[j].pc = "stored"

\* The step is a formatter reading the body of unit k's record.
ReadByFormatter(k) ==
    /\ pc \in {"json", "delim"}
    /\ conns[k].Response.Body.state = "unread"
    /\ RecordOf(conns'[k]) = RecordOf(conns[k])

\* C30 as stated: once a unit holds a record, no step changes the unit or
\* what the record holds (how far the body stream was read set aside).
C30_UnitFrozenOnceStored ==
    [][\A k \in 1..Len(conns) :
          ~conns[k].Response.nil =>
              /\ conns'[k].Timeout = conns[k].Timeout
              /\ RecordOf(conns'[k]) = RecordOf(conns[k])]_vars

\* C30, amended: a unit keeps its place, id and url for life; its timeout
\* changes only in SetTimeout; its record is replaced only by the store of
\* its own goroutine, once in every Process call, and between two stores
\* the only change to it is a formatter reading its unread body.
C30_UnitChangesOnlyByOwner ==
    [][/\ Len(conns') >= Len(conns)
       /\ \A k \in 1..Len(conns) :
             /\ conns'[k].id = conns[k].id
             /\ conns'[k].url = conns[k].url
             /\ conns'[k].Timeout # conns[k].Timeout => \E t \in TimeoutChoices : SetTimeout(t)
             /\ conns'[k].Response # conns[k].Response => StoredByFetch(k) \/ ReadByFormatter(k)]_vars

\* A unit whose record was stored under the default timeout and whose
\* timeout SetTimeout changed afterwards.
C30_Witness ==
    /\ pc = "idle"
    /\ Len(conns) >= 1
    /\ conns[1].Response.http
    /\ conns[1].Response.Body.deadline = defaultTimeout
    /\ conns[1].Timeout = 2 * Second

\* The step is one of the three calls that set the output mode, and the
\* mode after it is the one that call sets.
ModeSetBy ==
    \/ UseJson /\ responseType' = typeJson
    \/ UseDelimeter /\ responseType' = typeDelimiter
    \/ \E d \in DelimiterChoices : SetDelimiter(d) /\ responseType' = typeDelimiter

WholeMs(d) == CHOOSE k \in 0..(d \div Millisecond + 1) : k * Millisecond <= d /\ d < (k + 1) * Millisecond

\* The duration text of the k-th block of the delimited output, <<>> when
\* its header line has none.
BlockDuration(text, k) ==
    LET b == BlockText(text, k) IN
    IF Len(b) >= 6 /\ b[5] = ", Duration: " THEN <<b[6]>> ELSE <<>>

\* C32: the duration of a success record is the time from the start of Fetch
\* to the return of the HTTP call, a failure record has none; wherever an
\* entry shows a duration it is "<k>ms" with k the whole milliseconds of
\* that time, rounded down, and an entry of a success shows it also when
\* k = 0, while the entry of a failure record shows none.
C32_DurationWholeMs ==
    /\ \A k \in 1..Len(conns) :
           LET r == conns[k].Response IN
           Fresh(k) =>
               IF r.err = NoErr THEN r.duration = Remote(conns[k].url).hdrLat
               ELSE r.duration = 0
    /\ (Returned /\ responseType = typeJson) =>
           \A k \in 1..Len(conns) :
               LET r == conns[k].Response
                   o == w.docs[1][k]
                   shown == \E n \in 1..Len(o.keys) : o.keys[n] = "duration"
               IN /\ shown => o.duration = ToString(WholeMs(r.duration)) \o "ms"
                  /\ (r.err = NoErr /\ r.Body.state # "broken") => shown
                  /\ r.err # NoErr => ~shown
    /\ (Returned /\ responseType = typeDelimiter) =>
           \A k \in 1..Len(BlockStarts(w.text)) :
               LET r == conns[k].Response IN
               BlockDuration(w.text, k) =
                   IF r.err = NoErr THEN <<ToString(WholeMs(r.duration)) \o "ms">> ELSE <<>>

\* A 404 that came within 700 microseconds shows "0ms"; the entry of the
\* unit with the malformed url shows no duration.
C32_Witness ==
    /\ Returned
    /\ responseType = typeJson
    /\ Len(conns) = 2
    /\ conns[1].Response.duration = 700
    /\ w.docs[1][1].duration = "0ms"
    /\ w.docs[1][2].keys = <<"id", "error">>

\* The ends of the comma separated entries of the requests value: 0, the
\* position of every comma, and the position after the last character.
EntryBounds ==
    LET t == req.requests IN
    SelectSeq([p \in 1..(Len(t) + 2) |-> p - 1],
              LAMBDA p : p = 0 \/ p = Len(t) + 1 \/ t[p] = ",")

\* The k-th entry of the requests value.
Entry(k) == SubSeq(req.requests, EntryBounds[k] + 1, EntryBounds[k + 1] - 1)

\* The text s from its first to its last character that is not a blank.
Stripped(s) ==
    LET solid == {p \in 1..Len(s) : s[p] # " "} IN
    IF solid = {} THEN <<>>
    ELSE SubSeq(s, CHOOSE p \in solid : \A q \in solid : p <= q,
                   CHOOSE p \in solid : \A q \in solid : p >= q)

\* The position of the first colon of the k-th entry.
FirstColon(k) ==
    CHOOSE p \in 1..Len(Entry(k)) :
        Entry(k)[p] = ":" /\ \A q \in 1..(p - 1) : Entry(k)[q] # ":"

\* C33: when every comma separated entry of the requests value holds a
\* colon, the handler builds one unit per entry, in the order of the
\* entries and so at least one; the id is the text before the entry's first
\* colon and the url all the text after it, later colons included, both
\* without the blanks around them.
C33_OneUnitPerEntry ==
    (pc # "request" /\ ~RequestsBlank /\ ~SomeEntryWithoutColon) =>
        /\ Configured
        /\ Len(conns) = Len(EntryBounds) - 1
        /\ Len(conns) >= 1
        /\ \A k \in 1..Len(conns) :
               LET e == Entry(k)
                   c == FirstColon(k)
               IN /\ conns[k].id = Join(Stripped(SubSeq(e, 1, c - 1)))
                  /\ conns[k].url = Join(Stripped(SubSeq(e, c + 1, Len(e))))

\* A padded entry and one whose url holds a colon of its own.
C33_Witness ==
    /\ pc = "idle"
    /\ req.requests = <<" ", "b", " ", ":", " ", "nf", " ", ",", "c", ":", "h", ":", "nf">>
    /\ Len(conns) = 2
    /\ conns[1].id = "b" /\ conns[1].url = "nf"
    /\ conns[2].id = "c" /\ conns[2].url = "h:nf"

\* No byte of the response body has been written.
NothingWritten == w.text = <<>> /\ w.docs = <<>>

\* C34: in JSON mode the content type application/json is declared while
\* nothing of the body is written yet, and stands when the document is
\* written; in delimited mode the text is written with no content type
\* declared; a request answered 400 has none declared either.
C34_ContentTypeBeforeBody ==
    /\ [][/\ w'.ctype # w.ctype => (NothingWritten /\ w'.ctype = "application/json" /\ w'.docs = <<>>)
          /\ w'.docs # w.docs => (w.ctype = "application/json" /\ w'.ctype = w.ctype)
          /\ w'.text # w.text => w'.ctype = ""]_vars
    /\ [](pc \in {"json", "returned"} /\ responseType = typeJson => w.ctype = "application/json")
    /\ [](pc \in {"delim", "returned"} /\ responseType = typeDelimiter => w.ctype = "")
    /\ [](pc = "responded" => w.ctype = "" /\ w.code = 400)

\* The content type is declared, the entries are marshalled and the
\* document is not written yet.
C34_Witness ==
    /\ pc = "json"
    /\ w.ctype = "application/json"
    /\ NothingWritten
    /\ Len(resps) = 2

\* The step belongs to processConns: the switch on the mode or a round of
\* outputJson or outputDelimiter.
FormatterStep == processConns \/ outputJsonMarshal \/ outputJsonWrite \/ outputDelimiterStep

\* C35: the output formatters leave the Orchestra as it is - no step of
\* processConns, outputJson or outputDelimiter changes the unit sequence or
\* its order, a unit's id, url or timeout, the status, error or any other
\* stored field of its record, the output mode, the delimiter or the
\* Orchestra's timeout (they consume the records' body streams, no more).
C35_FormattersDoNotMutate ==
    [][FormatterStep =>
          /\ Len(conns') = Len(conns)
          /\ \A k \in 1..Len(conns) :
                /\ conns'[k].id = conns[k].id
                /\ conns'[k].url = conns[k].url
                /\ conns'[k].Timeout = conns[k].Timeout
                /\ RecordOf(conns'[k]) = RecordOf(conns[k])
          /\ responseType' = responseType
          /\ delimiter' = delimiter
          /\ timeout' = timeout]_vars

\* outputJson has met a body read error and the record still holds the
\* success it was stored with.
C35_Witness ==
    /\ Returned
    /\ responseType = typeJson
    /\ Len(conns) = 2
    /\ conns[1].Response.Body.state = "broken"
    /\ conns[1].Response.err = NoErr
    /\ conns[1].Response.StatusCode = 200
    /\ w.docs[1][1].keys = <<"id", "error">>
    /\ conns[2].Response.Body.state = "drained"

\* The record marks a timeout: it holds an error, and one of the timeout
\* kind (net/http's error answers Timeout() with true), which neither a
\* success record nor the record of any other transport failure does.
MarksTimeout(r) == ~r.nil /\ r.err # NoErr /\ r.err.kind = "timeout"

\* C36: when Process has returned, the record of every unit whose call ended
\* because its timeout expired - before the response arrived or while the
\* body was on its way - marks a timeout, and the record of no other unit
\* does.
C36_TimeoutMarked ==
    Returned =>
        \A k \in 1..Len(conns) :
            LET r == conns[k].Response IN
            /\ (TimedOut(conns[k]) /\ r.Body.state # "unread") => MarksTimeout(r)
            /\ MarksTimeout(r) => TimedOut(conns[k])

====
